---------------------------- MODULE Spec2Model ----------------------------
(***************************************************************************)
(* A model of the Darya downloader: the manifest timeline expansion of     *)
(* Darya.get_representations, functions.download_file with its retry       *)
(* recursion, and the fetch / assemble / decrypt / mux pipeline of         *)
(* Darya.download with its pool of download workers.                       *)
(*                                                                         *)
(* Files are modelled by their content: a sequence of tokens, one token    *)
(* per downloaded body.  A token is <<tag, kind, rid, time>>; the tag "B"  *)
(* is the whole body of the URL <<kind, rid, time>>, the tag "P" a         *)
(* truncated body of it.                                                   *)
(***************************************************************************)
EXTENDS Integers, Sequences, FiniteSets, TLC

(***************************************************************************)
(* Bounds of the model.                                                    *)
(***************************************************************************)
MaxRuns == 2        \* S elements of a SegmentTimeline
MaxD == 2           \* largest duration d of an S element
MaxR == 1           \* largest repeat count r of an S element
MaxT == 1           \* largest explicit start time t of an S element
MaxInterrupts == 6  \* interrupted attempts before the network settles
MaxSegs == 2        \* segments of a representation in the pipeline
Threads == 2        \* Darya.threads, the size of the worker pool
MaxReruns == 1      \* runs of the program after the first
MaxChildren == 2    \* children of a catalog item
MaxAccesses == 4    \* accesses to Darya.item in a run
SemaphoreSlots == 2
ChunkSize == 2
MaxFileSize == 7

(***************************************************************************)
(* Program constants.                                                      *)
(***************************************************************************)
Retries == 5

None == <<>>

VARIABLES
    parse,      \* get_representations on one SegmentTimeline
    dl,         \* download_file on one destination path
    mpds,        \* the manifests of the item: <<[name, reprs]>>
    resolution,  \* self.resolution
    audio,       \* self.audio
    pc,          \* where download() is
    reprs,       \* the representations get_representations returned
    ri,          \* the representation the loop is at, from 1
    cur,         \* the sink of the representation being fetched
    files,       \* the files on disk
    downloaded,  \* self.downloaded
    tasks,       \* the futures of the executor, in submission order
    muxes,       \* the ffmpeg runs: what each read
    env,         \* whether the publishing variables are set, once read
    published,   \* the uploads started
    ret,         \* what download() returned
    assembled,   \* history: the streams this run assembled
    prev,        \* history: the results of the run before
    reruns,      \* history: the runs after the first
    batch,       \* download() on an item with children
    cat,         \* Darya.item: the catalog entry and its cache
    up           \* Telegram.upload_video on one file

pipeVars == <<mpds, resolution, audio, pc, reprs, ri, cur, files, downloaded,
              tasks, muxes, env, published, ret, assembled, prev, reruns,
              batch, cat, up>>

vars == <<parse, dl, mpds, resolution, audio, pc, reprs, ri, cur, files,
          downloaded, tasks, muxes, env, published, ret, assembled, prev,
          reruns, batch, cat, up>>

(***************************************************************************)
(* Darya.get_representations: the SegmentTimeline loop.                    *)
(***************************************************************************)

\* A URL: <<kind, representation id, time>>.
InitUrl(rid) == <<"init", rid, 0>>

MediaUrl(rid, time) == <<"media", rid, time>>

\* segment.get("t"): None when the attribute is absent, else its text.  The
\* text of a t attribute is modelled by the number it spells.
NoT == -1

HasT(t) == t # NoT

\* A test of the number instead of the text: t = "0" would not reset.
TruthyTAsNumber(t) == HasT(t) /\ t # 0

\* `if t:` is true of every non-empty attribute text, "0" included.
TruthyT(t) == HasT(t)

\* for _ in range(r + 1): append the URL when there is a template and an
\* id, then time += d.  Returns <<segments, time>>.
RECURSIVE RepeatLoop(_, _, _, _, _, _)
RepeatLoop(n, d, time, segments, hasMedia, rid) ==
    IF n <= 0 THEN <<segments, time>>
    ELSE RepeatLoop(n - 1, d, time + d,
                    IF hasMedia /\ rid # ""
                    THEN Append(segments, MediaUrl(rid, time))
                    ELSE segments,
                    hasMedia, rid)

\* for segment in segment_timeline.findall("S"): ...
RECURSIVE TimelineLoop(_, _, _, _, _)
TimelineLoop(timeline, time, segments, hasMedia, rid) ==
    IF timeline = <<>> THEN segments
    ELSE LET S == Head(timeline)
             start == IF TruthyT(S.t) THEN S.t ELSE time
             out == RepeatLoop(S.r + 1, S.d, start, segments, hasMedia, rid)
         IN TimelineLoop(Tail(timeline), out[2], out[1], hasMedia, rid)

\* The segments list of one representation: time starts at 0.
SegmentsOf(timeline, hasMedia, rid) ==
    TimelineLoop(timeline, 0, <<>>, hasMedia, rid)

(***************************************************************************)
(* functions.download_file.                                                *)
(***************************************************************************)

\* What one requests.get / iter_content attempt can do.
\*   OK             status 200 and the whole body
\*   Status         a status code other than 200
\*   Chunked        status 200, ChunkedEncodingError while reading the body
\*   ConnectError   another exception raised by requests.get itself
\*   ReadError      status 200, another exception while reading the body
Outcomes == {"OK", "Status", "Chunked", "ConnectError", "ReadError"}

\* The transient transport failures: a body cut short (ChunkedEncodingError,
\* which is also what a connection reset while the body is read raises) and
\* a connection reset while the request is made (requests' ConnectionError).
Transient == {"Chunked", "ConnectError"}

\* The network as one download sees it: the first `fails` attempts end in
\* the transient failure `how`, every later one ends in `then`.
Nets == [fails : 0..MaxInterrupts, how : Transient, then : Outcomes]

Attempt(net, i) == IF i < net.fails THEN net.how ELSE net.then

\* The networks the downloads of a run see: the same outcome at every
\* attempt.
PoolNets == {net \in Nets : net.fails = 0 /\ net.how = "Chunked"}

Body(url) == << <<"B", url[1], url[2], url[3]>> >>

Partial(url) == << <<"P", url[1], url[2], url[3]>> >>

\* The filesystem: a function from the paths that exist to their content.
Exists(fs, p) == p \in DOMAIN fs

WriteFile(fs, p, c) == [q \in DOMAIN fs \cup {p} |-> IF q = p THEN c ELSE fs[q]]

RemoveFile(fs, p) == [q \in DOMAIN fs \ {p} |-> fs[q]]

\* `if retries > 0:` guards the retry.
RetryAllowed(retries) == retries > 0

\* The retry called without `return`: the caller falls through to None.
RetryResultDropped(rec) == [rec EXCEPT !.ret = None]

\* `return download_file(url, output, verbose, retries - 1)`: the caller
\* returns what the retry returned.
RetryResult(rec) == rec

\* open(output, "wb") truncates: the bytes written start an empty file.
OpenWb(fs, p) == <<>>

\* The destination opened before the status code is tested.
StatusResultOpened(fs, output, i) ==
    [ret |-> None, fs |-> WriteFile(fs, output, <<>>), requests |-> i + 1,
     log |-> <<"request", "Status">>]

\* `if response.status_code == 200:` is false: the status is logged, no
\* file is opened and the function falls off its end, returning None.
StatusResult(fs, output, i) ==
    [ret |-> None, fs |-> fs, requests |-> i + 1,
     log |-> <<"request", "Status">>]

\* download_file(url, output, verbose, retries) against the network `net`,
\* `i` requests having been made by the calls that recursed into this one.
\* Returns the value returned, the filesystem left behind, the number of
\* requests made and the log of what was done.
RECURSIVE download_file(_, _, _, _, _, _)
download_file(fs, url, output, retries, net, i) ==
    IF Exists(fs, output)
    THEN [ret |-> output, fs |-> fs, requests |-> i, log |-> <<"exists">>]
    ELSE LET a == Attempt(net, i) IN
         CASE a = "ConnectError" ->
                [ret |-> None, fs |-> fs, requests |-> i + 1,
                 log |-> <<"request", "ConnectError">>]
           [] a = "Status" -> StatusResult(fs, output, i)
           [] a = "OK" ->
                [ret |-> output, fs |-> WriteFile(fs, output, OpenWb(fs, output) \o Body(url)),
                 requests |-> i + 1, log |-> <<"request", "OK">>]
           [] a = "ReadError" ->
                [ret |-> None,
                 fs |-> WriteFile(fs, output, OpenWb(fs, output) \o Partial(url)),
                 requests |-> i + 1, log |-> <<"request", "ReadError">>]
           [] a = "Chunked" ->
                LET fs1 == WriteFile(fs, output,
                                     OpenWb(fs, output) \o Partial(url)) IN
                IF RetryAllowed(retries)
                THEN LET fs2 == IF Exists(fs1, output)
                                THEN RemoveFile(fs1, output) ELSE fs1
                         rec == download_file(fs2, url, output, retries - 1,
                                              net, i + 1)
                     IN RetryResult([rec EXCEPT !.log =
                            <<"request", "Chunked", "remove">> \o @])
                ELSE [ret |-> None, fs |-> fs1, requests |-> i + 1,
                      log |-> <<"request", "Chunked">>]

(***************************************************************************)
(* Inputs and idle states.                                                 *)
(***************************************************************************)
\* An S element: d and r as int() reads them, t absent (NoT) or a number.
SElements == [d : 0..MaxD, r : 0..MaxR, t : {NoT} \cup 0..MaxT]

RECURSIVE SeqsUpTo(_, _)
SeqsUpTo(S, n) ==
    IF n = 0 THEN {<<>>}
    ELSE LET shorter == SeqsUpTo(S, n - 1)
         IN shorter \cup {Append(q, x) : q \in shorter, x \in S}

Timelines == SeqsUpTo(SElements, MaxRuns)

ParseIdle == [pc |-> "idle", timeline |-> <<>>, hasMedia |-> FALSE,
              rid |-> "", segments |-> <<>>]

DlIdle == [pc |-> "idle", before |-> <<>>, fs |-> <<>>,
           net |-> [fails |-> 0, how |-> "Chunked", then |-> "OK"],
           ret |-> None, requests |-> 0, log |-> <<>>]

(***************************************************************************)
(* functions.resolution2representation, audio_bitrate2representation.      *)
(***************************************************************************)
Resolutions == {"1920x1080", "1280x720", "854x480", "426x240"}

Bitrates == {"128k", "256k", "320k"}

resolution2representation(res) ==
    CASE res = "1920x1080" -> "2880000"
      [] res = "1280x720" -> "1280000"
      [] res = "854x480" -> "568000"
      [] res = "426x240" -> "142000"
      [] OTHER -> "None"

audio_bitrate2representation(bitrate) ==
    CASE bitrate = "128k" -> "128000"
      [] bitrate = "256k" -> "256000"
      [] bitrate = "320k" -> "320000"
      [] OTHER -> "None"

(***************************************************************************)
(* Darya: the state of one run of download() on a single catalog item.     *)
(***************************************************************************)
VideoDir == "video"     \* self.VIDEO_OUTPUT_DIR

AudioDir == "audio"     \* self.AUDIO_OUTPUT_DIR

OutputDir == "output"   \* self.ITEM_OUTPUT_DIR

\* One file name for every segment of a directory.
OutputPathOneName(path, segment) == <<path, <<"media", "", 0>>>>

\* pathlib.Path(path) / basename(segment): the media and initialization
\* templates carry their placeholders in the last path component, so the
\* file name determines the URL.
OutputPath(path, segment) == <<path, segment>>

\* f"{path}/.{filename}", the assembled stream, and f"{path}/{filename}",
\* the stream decrypted.
StreamPath(path, filename) == <<path, <<"stream", filename, 0>>>>

DecryptedPath(path, filename) == <<path, <<"decrypted", filename, 0>>>>

VideoFile == DecryptedPath(VideoDir, "video.mp4")

AudioFile == DecryptedPath(AudioDir, "audio.mp3")

MuxOutput == <<OutputDir, <<"muxed", "title.mp4", 0>>>>

\* What mp4decrypt and ffmpeg write, as a mark before what they read.
Decrypted(stream) == << <<"DEC", "", "", 0>> >> \o stream

Muxed(a, v) == << <<"MUX", "", "", 0>> >> \o a \o v

\* `match mime:` gives (filename, path), (None, None) by default.
Sink(mime) ==
    CASE mime = "video/mp4" -> <<"video.mp4", VideoDir>>
      [] mime = "audio/mp4" -> <<"audio.mp3", AudioDir>>
      [] OTHER -> <<"None", "None">>

\* `if r2r(self.resolution) == rid or ab2r(self.audio) == rid:`
Selected(res, bitrate, rid) ==
    \/ resolution2representation(res) = rid
    \/ audio_bitrate2representation(bitrate) = rid

\* self.downloaded, a dict: its items in insertion order.  Assigning to a
\* key it holds replaces the value in place.
DictKeys(d) == {d[n][1] : n \in 1..Len(d)}

DictGet(d, key) ==
    IF key \in DictKeys(d)
    THEN (d[CHOOSE n \in 1..Len(d) : d[n][1] = key])[2]
    ELSE None

DictSet(d, key, value) ==
    IF key \in DictKeys(d)
    THEN [n \in 1..Len(d) |-> IF d[n][1] = key THEN <<key, value>> ELSE d[n]]
    ELSE Append(d, <<key, value>>)

\* sorted(self.downloaded): the keys in ascending order.
RECURSIVE SortedKeys(_)
SortedKeys(keys) ==
    IF keys = {} THEN <<>>
    ELSE LET least == CHOOSE k \in keys : \A other \in keys : k <= other
         IN <<least>> \o SortedKeys(keys \ {least})

\* The order in which combine visits the keys of self.downloaded.
CombineOrder(d) == SortedKeys(DictKeys(d))

\* Darya.combine(f): the bytes appended to f, value after value.
RECURSIVE ReadAll(_, _, _)
ReadAll(fs, d, keys) ==
    IF keys = <<>> THEN <<>>
    ELSE LET value == DictGet(d, Head(keys))
         IN (IF value # None THEN fs[value] ELSE <<>>)
                \o ReadAll(fs, d, Tail(keys))

combine(fs, d) == ReadAll(fs, d, CombineOrder(d))

\* The files combine opens.
CombineReads(d) == {d[n][2] : n \in 1..Len(d)} \ {None}

\* The position counted from 1, as enumerate(segments, 1) would give it.
SegmentResultFromOne(idx, output, ok) ==
    IF ok THEN <<idx + 1, output>> ELSE <<idx + 1, None>>

\* The pair download_segment returns.
SegmentResult(idx, output, ok) == IF ok THEN <<idx, output>> ELSE <<idx, None>>

\* Darya.download_segment(idx, segment, path) in a worker that found the
\* destination file present (`saw`) or absent when download_file tested it
\* and then, if absent, saw the network `net`.  A request that is refused
\* (a status, a connection error) opens no file.
download_segment(fs, idx, segment, path, saw, net) ==
    LET output == OutputPath(path, segment) IN
    IF saw THEN [res |-> SegmentResult(idx, output, TRUE), fs |-> fs,
                 requests |-> 0]
    ELSE LET absent == IF Exists(fs, output) THEN RemoveFile(fs, output)
                       ELSE fs
             r == download_file(absent, segment, output, Retries, net, 0)
             touched == r.requests > 1 \/ Exists(r.fs, output)
         IN [res |-> SegmentResult(idx, output, r.ret # None),
             fs |-> IF touched THEN r.fs ELSE fs,
             requests |-> r.requests]

(***************************************************************************)
(* Darya.download on a single item (type(item) is dict).                   *)
(***************************************************************************)
\* download() on an item that is no list: no loop over children runs.
BatchIdle == [pc |-> "none", children |-> <<>>, idx |-> 0,
              downloaded |-> <<>>, ran |-> <<>>, sent |-> <<>>]

\* No access to Darya.item is followed.
CatIdle == [pc |-> "idle", data |-> <<>>, cached |-> <<>>, requests |-> 0,
            got |-> <<>>, codes |-> <<>>]

\* No upload is followed.
UpIdle == [pc |-> "idle", size |-> 0, st |-> <<>>, pos |-> 0,
           parts |-> <<>>, sent |-> FALSE]

CurNone == [ff |-> None, out |-> None, path |-> "None", rid |-> "",
            segments |-> <<>>, init |-> None, had |-> FALSE]

\* get_representations(mpd_file, base_url): one dict per Representation.
\* "pssh" and "init" are keys of the dict only when the manifest has them.
get_representations(manifest) ==
    [n \in 1..Len(manifest) |->
        [rid |-> manifest[n].rid,
         mime |-> manifest[n].mime,
         hasPssh |-> manifest[n].pssh,
         hasInit |-> manifest[n].initialization /\ manifest[n].rid # "",
         segments |-> SegmentsOf(manifest[n].timeline, manifest[n].media,
                                 manifest[n].rid)]]

\* re.search(self.resolution, mpd): the manifests whose name holds it.
Matching == {n \in 1..Len(mpds) : mpds[n].name = resolution}

\* The loop run to its end, every match used in turn: the last one stays.
UsedMatchNoBreak(matches) ==
    CHOOSE n \in matches : \A m \in matches : m <= n

\* The `break` that ends the body of `if re.search(...)` leaves the loop
\* over the manifests at the first match, whatever happened to it.
UsedMatch(matches) ==
    CHOOSE n \in matches : \A m \in matches : n <= m

\* for mpd in mpds: if re.search(...): for repr in get_representations(...)
SelectManifest ==
    /\ pc = "start"
    /\ IF Matching = {}
       THEN /\ pc' = "done"
            /\ UNCHANGED <<reprs, ri>>
       ELSE LET first == UsedMatch(Matching)
            IN /\ reprs' = get_representations(mpds[first].reprs)
               /\ ri' = 1
               /\ pc' = "repr"
    /\ UNCHANGED <<mpds, resolution, audio, cur, files, downloaded, tasks, muxes,
                   env, published, ret, assembled, prev, reruns, parse, dl, batch, cat, up>>

AtRepr == pc = "repr" /\ ri <= Len(reprs)

\* repr["init"], repr["pssh"]: a KeyError when the key is missing.
ReprKeyError ==
    /\ AtRepr
    /\ ~(reprs[ri].hasInit /\ reprs[ri].hasPssh)
    /\ pc' = "crashed"
    /\ UNCHANGED <<mpds, resolution, audio, reprs, ri, cur, files, downloaded,
                   tasks, muxes, env, published, ret, assembled, prev,
                   reruns, parse, dl, batch, cat, up>>

\* A representation whose id is neither looked-up id.
ReprSkip ==
    /\ AtRepr
    /\ reprs[ri].hasInit /\ reprs[ri].hasPssh
    /\ ~Selected(resolution, audio, reprs[ri].rid)
    /\ ri' = ri + 1
    /\ UNCHANGED <<mpds, resolution, audio, pc, reprs, cur, files, downloaded,
                   tasks, muxes, env, published, ret, assembled, prev,
                   reruns, parse, dl, batch, cat, up>>

\* A selected representation: the key exchange, the sink, the
\* initialization segment, and the segment tasks submitted to the pool.
ReprBegin ==
    /\ AtRepr
    /\ reprs[ri].hasInit /\ reprs[ri].hasPssh
    /\ Selected(resolution, audio, reprs[ri].rid)
    /\ \E keyOk \in BOOLEAN, net \in PoolNets :
          LET r == reprs[ri]
              filename == Sink(r.mime)[1]
              path == Sink(r.mime)[2]
              ff == StreamPath(path, filename)
              opened == WriteFile(files, ff, <<>>)
              i == download_file(opened, InitUrl(r.rid),
                                 OutputPath(path, InitUrl(r.rid)), Retries,
                                 net, 0)
              written == IF i.ret # None THEN i.fs[i.ret] ELSE <<>>
          IN IF ~keyOk
             THEN \* self.decrypt raises
                  /\ pc' = "crashed"
                  /\ UNCHANGED <<ri, cur, files, tasks>>
             ELSE IF filename = "None"
             THEN \* no sink: decrypt_video(key, ff, "None/None")
                  IF cur.ff = None
                  THEN /\ pc' = "crashed"
                       /\ UNCHANGED <<ri, cur, files, tasks>>
                  ELSE /\ ri' = ri + 1
                       /\ UNCHANGED <<pc, cur, files, tasks>>
             ELSE /\ files' = WriteFile(i.fs, ff, written)
                  /\ cur' = [ff |-> ff, out |-> DecryptedPath(path, filename),
                             path |-> path, rid |-> r.rid,
                             segments |-> r.segments, init |-> i.ret,
                             had |-> \A n \in 1..Len(r.segments) :
                                 Exists(files,
                                        OutputPath(path, r.segments[n]))]
                  /\ tasks' = [n \in 1..Len(r.segments) |->
                                  [st |-> "pending", saw |-> FALSE,
                                   res |-> None, requests |-> 0]]
                  /\ pc' = "fetch"
                  /\ ri' = ri
    /\ UNCHANGED <<mpds, resolution, audio, reprs, downloaded, muxes, env,
                   published, ret, assembled, prev, reruns, parse, dl, batch, cat, up>>

Running == {n \in 1..Len(tasks) : tasks[n].st = "running"}

\* A pool that starts a thread for every task submitted.
PoolUnbounded == TRUE

\* ThreadPoolExecutor(max_workers=self.threads): a task leaves the queue
\* only when one of the at most `threads` workers is idle.
PoolHasIdleWorker == Cardinality(Running) < Threads

\* A pool thread takes the next task of the queue; download_file tests
\* whether the destination exists.
Start(n) ==
    /\ pc = "fetch"
    /\ tasks[n].st = "pending"
    /\ \A m \in 1..(n - 1) : tasks[m].st # "pending"
    /\ PoolHasIdleWorker
    /\ tasks' = [tasks EXCEPT ![n] =
                    [@ EXCEPT !.st = "running",
                              !.saw = Exists(files, OutputPath(cur.path,
                                                           cur.segments[n]))]]
    /\ UNCHANGED <<mpds, resolution, audio, pc, reprs, ri, cur, files,
                   downloaded, muxes, env, published, ret, assembled, prev,
                   reruns, parse, dl, batch, cat, up>>

\* The worker's download_segment returns: the future is done.
Finish(n) ==
    /\ pc = "fetch"
    /\ tasks[n].st = "running"
    /\ \E net \in PoolNets :
          LET d == download_segment(files, n - 1, cur.segments[n], cur.path,
                                    tasks[n].saw, net)
          IN /\ files' = d.fs
             /\ tasks' = [tasks EXCEPT ![n] =
                             [@ EXCEPT !.st = "done", !.res = d.res,
                                       !.requests = d.requests]]
    /\ UNCHANGED <<mpds, resolution, audio, pc, reprs, ri, cur, downloaded,
                   muxes, env, published, ret, assembled, prev, reruns, parse, dl, batch, cat, up>>

\* for future in as_completed(futures): idx, file_path = future.result()
Collect(n) ==
    /\ pc = "fetch"
    /\ tasks[n].st = "done"
    /\ tasks' = [tasks EXCEPT ![n] = [@ EXCEPT !.st = "collected"]]
    /\ downloaded' = IF tasks[n].res[2] # None
                     THEN DictSet(downloaded, tasks[n].res[1],
                                  tasks[n].res[2])
                     ELSE downloaded
    /\ UNCHANGED <<mpds, resolution, audio, pc, reprs, ri, cur, files, muxes,
                   env, published, ret, assembled, prev, reruns, parse, dl, batch, cat, up>>

\* The loop left at the first future that completed.
JoinedAtFirst == \E n \in 1..Len(tasks) : tasks[n].st = "collected"

\* `for future in as_completed(futures)` has yielded every future and the
\* `with ThreadPoolExecutor(...)` block has been left (shutdown waits).
Joined == \A n \in 1..Len(tasks) : tasks[n].st = "collected"

\* The pool is joined; self.combine(f), f is closed, decrypt_video runs
\* mp4decrypt, whose failure is logged.
Combine ==
    /\ pc = "fetch"
    /\ Joined
    /\ IF \E p \in CombineReads(downloaded) : ~Exists(files, p)
       THEN \* open(value, "rb") raises
            /\ pc' = "crashed"
            /\ UNCHANGED <<ri, files, assembled>>
       ELSE \E decOk \in BOOLEAN :
               LET stream == files[cur.ff] \o combine(files, downloaded)
                   closed == WriteFile(files, cur.ff, stream)
               IN /\ files' = IF decOk
                           THEN WriteFile(closed, cur.out, Decrypted(stream))
                           ELSE closed
                  /\ assembled' = Append(assembled,
                        [rid |-> cur.rid, path |-> cur.path, ff |-> cur.ff,
                         out |-> cur.out, segments |-> cur.segments,
                         init |-> cur.init, had |-> cur.had, dec |-> decOk,
                         results |-> [n \in 1..Len(tasks) |-> tasks[n].res],
                         requests |->
                             [n \in 1..Len(tasks) |-> tasks[n].requests],
                         stream |-> stream])
                  /\ ri' = ri + 1
                  /\ pc' = "repr"
    /\ UNCHANGED <<mpds, resolution, audio, reprs, cur, downloaded, tasks,
                   muxes, env, published, ret, prev, reruns, parse, dl, batch, cat, up>>

\* The loop over the representations ends.
ReprsDone ==
    /\ pc = "repr"
    /\ ri > Len(reprs)
    /\ pc' = "mux"
    /\ UNCHANGED <<mpds, resolution, audio, reprs, ri, cur, files, downloaded,
                   tasks, muxes, env, published, ret, assembled, prev,
                   reruns, parse, dl, batch, cat, up>>

BothExist == Exists(files, VideoFile) /\ Exists(files, AudioFile)

\* `if video.exists() and audio.exists():` is false: break, return None.
MuxSkip ==
    /\ pc = "mux"
    /\ ~BothExist
    /\ pc' = "done"
    /\ UNCHANGED <<mpds, resolution, audio, reprs, ri, cur, files, downloaded,
                   tasks, muxes, env, published, ret, assembled, prev,
                   reruns, parse, dl, batch, cat, up>>

\* The exit status of ffmpeg not looked at (check=True left out).
MuxExitIgnored(ok) == "publish"

\* subprocess.run(..., check=True): on a zero exit send_video and
\* `return output` follow; a CalledProcessError is logged, and the `break`
\* leaves the loop for the implicit `return None`.
MuxExit(ok) == IF ok THEN "publish" ELSE "done"

\* subprocess.run(ffmpeg -y -i audio -i video -c copy output).
Mux ==
    /\ pc = "mux"
    /\ BothExist
    /\ \E ok \in BOOLEAN :
          /\ muxes' = Append(muxes, [video |-> files[VideoFile],
                                     audio |-> files[AudioFile],
                                     ok |-> ok])
          /\ files' = IF ok
                      THEN WriteFile(files, MuxOutput,
                                     Muxed(files[AudioFile], files[VideoFile]))
                      ELSE files
          /\ pc' = MuxExit(ok)
    /\ UNCHANGED <<mpds, resolution, audio, reprs, ri, cur, downloaded,
                   tasks, env, published, ret, assembled, prev, reruns,
                   parse, dl, batch, cat, up>>

\* The file uploaded whatever the item is.
UploadsAnyItem(itemType, exists) == exists

\* `if file_path.exists() and type(self.item) is dict:` guards the upload.
Uploads(itemType, exists) == exists /\ itemType = "dict"

\* self.send_video(output); return output.  Env raises an AssertionError
\* for a variable that is not set; what the upload raises is caught.
SendVideo ==
    /\ pc = "publish"
    /\ \E e \in {"set", "unset"}, upload \in {"sent", "failed", "noinfo"} :
          /\ env \in {"unread", e}
          /\ env' = e
          /\ IF e = "unset"
             THEN /\ pc' = "crashed"
                  /\ UNCHANGED <<published, ret>>
             ELSE /\ published' =
                        IF Uploads("dict", Exists(files, MuxOutput))
                              /\ upload # "noinfo"
                        THEN Append(published, MuxOutput)
                        ELSE published
                  /\ ret' = MuxOutput
                  /\ pc' = "done"
    /\ UNCHANGED <<mpds, resolution, audio, reprs, ri, cur, files, downloaded,
                   tasks, muxes, assembled, prev, reruns, parse, dl, batch, cat, up>>

\* The program is run again on the same directory tree.
Rerun ==
    /\ pc \in {"done", "crashed"}
    /\ reruns < MaxReruns
    /\ reruns' = reruns + 1
    /\ pc' = "start"
    /\ reprs' = <<>>
    /\ ri' = 0
    /\ cur' = CurNone
    /\ downloaded' = <<>>
    /\ tasks' = <<>>
    /\ muxes' = <<>>
    /\ published' = <<>>
    /\ ret' = None
    /\ prev' = [n \in 1..Len(assembled) |->
                    [path |-> assembled[n].path,
                     results |-> assembled[n].results]]
    /\ assembled' = <<>>
    /\ UNCHANGED <<mpds, resolution, audio, files, env, parse, dl, batch, cat, up>>

Next ==
    \/ SelectManifest
    \/ ReprKeyError
    \/ ReprSkip
    \/ ReprBegin
    \/ \E n \in 1..Len(tasks) : Start(n)
    \/ \E n \in 1..Len(tasks) : Finish(n)
    \/ \E n \in 1..Len(tasks) : Collect(n)
    \/ Combine
    \/ ReprsDone
    \/ MuxSkip
    \/ Mux
    \/ SendVideo

ResumeNext == Next \/ Rerun

(***************************************************************************)
(* The manifests the runs start from.                                      *)
(***************************************************************************)

\* A timeline of n segments of duration 1.
Plain(n) == IF n = 0 THEN <<>> ELSE <<[d |-> 1, r |-> n - 1, t |-> NoT]>>

Repr(rid, mime, n) ==
    [rid |-> rid, mime |-> mime, pssh |-> TRUE, initialization |-> TRUE,
     media |-> TRUE, timeline |-> Plain(n)]

Video(n) == Repr("2880000", "video/mp4", n)

Audio(n) == Repr("128000", "audio/mp4", n)

\* A video representation of 1..MaxSegs segments and an audio
\* representation of one, in either order.
StandardManifests ==
    {<<Video(n), Audio(1)>> : n \in 1..MaxSegs}
        \cup {<<Audio(1), Video(n)>> : n \in 1..MaxSegs}

\* One or two one-segment representations, any id with any mime type.
OneSegment ==
    {Repr(rid, mime, 1) : rid \in {"2880000", "128000", "999"},
                          mime \in {"video/mp4", "audio/mp4", "text/vtt"}}

SelectionManifests == SeqsUpTo(OneSegment, 2) \ {<<>>}

\* A representation with one segment more than the pool has workers.
WideManifests == {<<Video(Threads + 1)>>}

\* Representations without a content-protection blob, an initialization
\* template or a timeline.
OptionalManifests ==
    {<<[Video(1) EXCEPT !.pssh = FALSE], Audio(1)>>,
     <<Video(1), [Audio(1) EXCEPT !.initialization = FALSE]>>,
     <<Video(0), Audio(1)>>}

Mpd(name, manifest) == [name |-> name, reprs |-> manifest]

PipeStart ==
    /\ resolution = "1920x1080"
    /\ audio = "128k"
    /\ pc = "start"
    /\ reprs = <<>>
    /\ ri = 0
    /\ cur = CurNone
    /\ files = <<>>
    /\ downloaded = <<>>
    /\ tasks = <<>>
    /\ muxes = <<>>
    /\ env = "unread"
    /\ published = <<>>
    /\ ret = None
    /\ assembled = <<>>
    /\ prev = <<>>
    /\ reruns = 0
    /\ batch = BatchIdle
    /\ cat = CatIdle
    /\ up = UpIdle

PipeIdle ==
    /\ mpds = <<>>
    /\ PipeStart

Init ==
    /\ parse = ParseIdle
    /\ dl = DlIdle
    /\ PipeStart
    /\ \/ \E m \in StandardManifests \cup SelectionManifests
                       \cup OptionalManifests \cup WideManifests :
             mpds = <<Mpd("1920x1080", m)>>
       \/ mpds \in {<<Mpd("1280x720", <<Video(1), Audio(1)>>)>>,
                    <<Mpd("1280x720", <<Video(1)>>),
                      Mpd("1920x1080", <<Video(1), Audio(1)>>),
                      Mpd("1920x1080", <<Audio(1)>>)>>}

Spec == Init /\ [][Next]_vars

\* The runs that resume: one representation selected, or one segment each.
ResumeInit ==
    /\ parse = ParseIdle
    /\ dl = DlIdle
    /\ PipeStart
    /\ \E m \in {<<Video(n)>> : n \in 1..MaxSegs}
                \cup {<<Video(1), Audio(1)>>,
                      <<[Video(1) EXCEPT !.pssh = FALSE]>>,
                      <<Repr("999", "video/mp4", 1)>>} :
          mpds = <<Mpd("1920x1080", m)>>

SpecResume == ResumeInit /\ [][ResumeNext]_vars

(***************************************************************************)
(* Darya.download on an item with children (type(item) is list).           *)
(***************************************************************************)

\* A child whose catalog entry is a single item with the manifests `m`, and
\* a child whose catalog entry cannot be fetched (its item is None).
Child(m) == [kind |-> "item", mpds |-> m]

Missing == [kind |-> "missing", mpds |-> <<>>]

Children ==
    {Child(<<Mpd("1920x1080", <<Video(1), Audio(1)>>)>>),
     Child(<<Mpd("1920x1080", <<[Video(1) EXCEPT !.pssh = FALSE]>>)>>),
     Child(<<Mpd("1920x1080", <<Repr("999", "video/mp4", 1), Audio(1)>>)>>),
     Missing}

\* for idx, item in enumerate(copy.deepcopy(item)): the loop is at child
\* `idx`, or past the last one.  Darya(id, ...).download() starts on a
\* child: a new object, whose directories are the child's own.
BatchStep ==
    /\ batch.pc = "loop"
    /\ IF batch.idx >= Len(batch.children)
       THEN /\ batch' = [batch EXCEPT !.pc = "send"]
            /\ UNCHANGED <<mpds, pc, reprs, ri, cur, files, downloaded,
                           tasks, muxes, ret, assembled>>
       ELSE LET child == batch.children[batch.idx + 1] IN
            IF child.kind = "missing"
            THEN \* the child's download() logs and returns None; break
                 /\ batch' = [batch EXCEPT !.pc = "send",
                                           !.ran = Append(@, batch.idx)]
                 /\ UNCHANGED <<mpds, pc, reprs, ri, cur, files, downloaded,
                                tasks, muxes, ret, assembled>>
            ELSE /\ batch' = [batch EXCEPT !.pc = "child",
                                           !.ran = Append(@, batch.idx)]
                 /\ mpds' = child.mpds
                 /\ pc' = "start"
                 /\ reprs' = <<>>
                 /\ ri' = 0
                 /\ cur' = CurNone
                 /\ files' = <<>>
                 /\ downloaded' = <<>>
                 /\ tasks' = <<>>
                 /\ muxes' = <<>>
                 /\ ret' = None
                 /\ assembled' = <<>>
    /\ UNCHANGED <<resolution, audio, env, published, prev, reruns, parse, dl, cat, up>>

\* `if download := darya.download(): downloaded[idx] = download`, and the
\* `break` that follows it in the loop body.
BatchChildDone ==
    /\ batch.pc = "child"
    /\ pc = "done"
    /\ batch' = [batch EXCEPT
                    !.pc = "send",
                    !.downloaded = IF ret # None
                                   THEN DictSet(@, batch.idx, ret) ELSE @]
    /\ UNCHANGED <<mpds, resolution, audio, pc, reprs, ri, cur, files,
                   downloaded, tasks, muxes, env, published, ret, assembled,
                   prev, reruns, parse, dl, cat, up>>

\* darya.download() raises: nothing in the loop catches it.
BatchChildRaise ==
    /\ batch.pc = "child"
    /\ pc = "crashed"
    /\ batch' = [batch EXCEPT !.pc = "raised"]
    /\ UNCHANGED <<mpds, resolution, audio, pc, reprs, ri, cur, files,
                   downloaded, tasks, muxes, env, published, ret, assembled,
                   prev, reruns, parse, dl, cat, up>>

\* for file in downloaded.values(): self.send_video(file).  Env raises for
\* a variable that is not set; with them set nothing is uploaded, since
\* type(self.item) is list here.
BatchSend ==
    /\ batch.pc = "send"
    /\ IF batch.downloaded = <<>>
       THEN /\ batch' = [batch EXCEPT !.pc = "done"]
            /\ UNCHANGED <<env, published>>
       ELSE \E e \in {"set", "unset"}, upload \in {"sent", "failed", "noinfo"} :
               LET given == [n \in 1..Len(batch.downloaded)
                                |-> batch.downloaded[n][2]]
                   Started(file) == /\ Uploads("list", Exists(files, file))
                                    /\ upload # "noinfo"
               IN /\ env \in {"unread", e}
                  /\ env' = e
                  /\ batch' = IF e = "unset"
                              THEN [batch EXCEPT !.pc = "crashed"]
                              ELSE [batch EXCEPT !.pc = "done",
                                                 !.sent = given]
                  /\ published' = IF e = "unset" THEN published
                                  ELSE published \o SelectSeq(given, Started)
    /\ UNCHANGED <<mpds, resolution, audio, pc, reprs, ri, cur, files,
                   downloaded, tasks, muxes, ret, assembled,
                   prev, reruns, parse, dl, cat, up>>

BatchNext ==
    \/ Next
    \/ BatchStep
    \/ BatchChildDone
    \/ BatchChildRaise
    \/ BatchSend

\* The parent object: its item is the list of 0..MaxChildren children.
BatchInit ==
    /\ parse = ParseIdle
    /\ dl = DlIdle
    /\ mpds = <<>>
    /\ resolution = "1920x1080"
    /\ audio = "128k"
    /\ pc = "none"
    /\ reprs = <<>>
    /\ ri = 0
    /\ cur = CurNone
    /\ files = <<>>
    /\ downloaded = <<>>
    /\ tasks = <<>>
    /\ muxes = <<>>
    /\ env = "unread"
    /\ published = <<>>
    /\ ret = None
    /\ assembled = <<>>
    /\ prev = <<>>
    /\ reruns = 0
    /\ cat = CatIdle
    /\ up = UpIdle
    /\ \E c \in SeqsUpTo(Children, MaxChildren) :
          batch = [pc |-> "loop", children |-> c, idx |-> 0,
                   downloaded |-> <<>>, ran |-> <<>>, sent |-> <<>>]

SpecBatch == BatchInit /\ [][BatchNext]_vars

(***************************************************************************)
(* Darya.item: the catalog entry of the item, fetched on access.           *)
(***************************************************************************)

\* What the catalog holds for an item id: a single item, or an entry with
\* children.
Catalog ==
    {[id |-> "a", children |-> <<>>, single |-> TRUE],
     [id |-> "b", children |-> <<"c">>, single |-> FALSE],
     [id |-> "d", children |-> <<"e", "f">>, single |-> FALSE]}

\* data if "children" not in data else [child for child in
\* data["children"]]
ItemOf(data) ==
    IF data.single THEN [type |-> "dict", value |-> <<data.id>>]
    ELSE [type |-> "list", value |-> data.children]

\* What the property returns when it reaches its end: None.
NoItem == [type |-> "NoneType", value |-> <<>>]

\* The status codes the catalog request is answered with.
StatusCodes == {200, 404, 500}

\* One evaluation of self.item.
ItemAccess ==
    /\ cat.pc = "run"
    /\ Len(cat.got) < MaxAccesses
    /\ IF cat.cached # <<>>
       THEN \* hasattr(self, "_item"): return self._item
            cat' = [cat EXCEPT !.got = Append(@, cat.cached[1])]
       ELSE \E code \in StatusCodes :
               cat' = [cat EXCEPT
                          !.requests = @ + 1,
                          !.codes = Append(@, code),
                          !.cached = IF code = 200
                                     THEN <<ItemOf(cat.data)>> ELSE @,
                          !.got = Append(@, IF code = 200
                                            THEN ItemOf(cat.data)
                                            ELSE NoItem)]
    /\ UNCHANGED <<parse, dl, mpds, resolution, audio, pc, reprs, ri, cur,
                   files, downloaded, tasks, muxes, env, published, ret,
                   assembled, prev, reruns, batch, up>>

ItemInit ==
    /\ parse = ParseIdle
    /\ dl = DlIdle
    /\ mpds = <<>>
    /\ resolution = "1920x1080"
    /\ audio = "128k"
    /\ pc = "none"
    /\ reprs = <<>>
    /\ ri = 0
    /\ cur = CurNone
    /\ files = <<>>
    /\ downloaded = <<>>
    /\ tasks = <<>>
    /\ muxes = <<>>
    /\ env = "unread"
    /\ published = <<>>
    /\ ret = None
    /\ assembled = <<>>
    /\ prev = <<>>
    /\ reruns = 0
    /\ batch = BatchIdle
    /\ up = UpIdle
    /\ \E data \in Catalog :
          cat = [pc |-> "run", data |-> data, cached |-> <<>>,
                 requests |-> 0, got |-> <<>>, codes |-> <<>>]

ItemNext == ItemAccess

SpecItem == ItemInit /\ [][ItemNext]_vars

(***************************************************************************)
(* Telegram.upload_video: the file is cut into parts of chunk_size bytes,  *)
(* one coroutine per part, all reading through the one open file handle,   *)
(* a semaphore limiting how many send their part at a time.  The model     *)
(* scales chunk_size (512 * 1024) and the semaphore (32) down.             *)
(***************************************************************************)

\* The bytes of the file: byte k of the file is k, so every offset differs.
FileContent(size) == [k \in 1..size |-> k]

\* total_chunks = (file_size + chunk_size - 1) // chunk_size
TotalChunks(size) == (size + ChunkSize - 1) \div ChunkSize

\* f.seek(i) in place of f.seek(i * chunk_size).
SeekOffsetUnscaled(i) == i

\* f.seek(i * chunk_size)
SeekOffset(i) == i * ChunkSize

\* f.read(chunk_size) with the handle at pos: the bytes read.
ReadChunk(size, pos) ==
    SubSeq(FileContent(size), pos + 1,
           IF pos + ChunkSize < size THEN pos + ChunkSize ELSE size)

\* The parts inside `async with semaphore`.
Holding == {i \in DOMAIN up.st : up.st[i] \in {"sending"}}

\* semaphore.acquire() returns without waiting.
SemaphoreFree == Cardinality(Holding) < SemaphoreSlots

\* sem_task(i) up to its first await: the semaphore is acquired, the handle
\* is moved, the chunk is read and SaveBigFilePartRequest(file_part = i) is
\* issued.  No await separates these, so the event loop runs them as one
\* step.  Any waiting part may be the next one.
UploadChunk(i) ==
    /\ up.pc = "gather"
    /\ i \in DOMAIN up.st
    /\ up.st[i] = "waiting"
    /\ SemaphoreFree
    /\ LET at == SeekOffset(i)
           chunk == ReadChunk(up.size, at)
       IN up' = [up EXCEPT !.st[i] = "sending",
                           !.pos = at + Len(chunk),
                           !.parts = Append(@, <<i, chunk>>)]
    /\ UNCHANGED <<parse, dl, mpds, resolution, audio, pc, reprs, ri, cur,
                   files, downloaded, tasks, muxes, env, published, ret,
                   assembled, prev, reruns, batch, cat>>

\* The request of part i is answered: upload_chunk returns and the
\* semaphore is released.
ChunkSaved(i) ==
    /\ up.pc = "gather"
    /\ i \in DOMAIN up.st
    /\ up.st[i] = "sending"
    /\ up' = [up EXCEPT !.st[i] = "done"]
    /\ UNCHANGED <<parse, dl, mpds, resolution, audio, pc, reprs, ri, cur,
                   files, downloaded, tasks, muxes, env, published, ret,
                   assembled, prev, reruns, batch, cat>>

\* The request of part i raises: the semaphore is released and the
\* exception is set on the gather.
ChunkRaises(i) ==
    /\ up.pc = "gather"
    /\ i \in DOMAIN up.st
    /\ up.st[i] = "sending"
    /\ up' = [up EXCEPT !.st[i] = "failed"]
    /\ UNCHANGED <<parse, dl, mpds, resolution, audio, pc, reprs, ri, cur,
                   files, downloaded, tasks, muxes, env, published, ret,
                   assembled, prev, reruns, batch, cat>>

\* `await asyncio.gather(*tasks)` raises the first exception: the file is
\* closed, the client disconnects and send_file is not reached.
GatherRaises ==
    /\ up.pc = "gather"
    /\ \E i \in DOMAIN up.st : up.st[i] = "failed"
    /\ up' = [up EXCEPT !.pc = "raised"]
    /\ UNCHANGED <<parse, dl, mpds, resolution, audio, pc, reprs, ri, cur,
                   files, downloaded, tasks, muxes, env, published, ret,
                   assembled, prev, reruns, batch, cat>>

\* gather returns once every task has: send_file(InputFileBig(parts =
\* total_chunks)).
SendFile ==
    /\ up.pc = "gather"
    /\ \A i \in DOMAIN up.st : up.st[i] = "done"
    /\ up' = [up EXCEPT !.pc = "sent", !.sent = TRUE]
    /\ UNCHANGED <<parse, dl, mpds, resolution, audio, pc, reprs, ri, cur,
                   files, downloaded, tasks, muxes, env, published, ret,
                   assembled, prev, reruns, batch, cat>>

UploadInit ==
    /\ parse = ParseIdle
    /\ dl = DlIdle
    /\ mpds = <<>>
    /\ resolution = "1920x1080"
    /\ audio = "128k"
    /\ pc = "none"
    /\ reprs = <<>>
    /\ ri = 0
    /\ cur = CurNone
    /\ files = <<>>
    /\ downloaded = <<>>
    /\ tasks = <<>>
    /\ muxes = <<>>
    /\ env = "unread"
    /\ published = <<>>
    /\ ret = None
    /\ assembled = <<>>
    /\ prev = <<>>
    /\ reruns = 0
    /\ batch = BatchIdle
    /\ cat = CatIdle
    /\ \E size \in 0..MaxFileSize :
          up = [pc |-> "gather", size |-> size,
                st |-> [i \in 0..(TotalChunks(size) - 1) |-> "waiting"],
                pos |-> 0, parts |-> <<>>, sent |-> FALSE]

UploadNext ==
    \/ \E i \in 0..(TotalChunks(MaxFileSize) - 1) : UploadChunk(i)
    \/ \E i \in 0..(TotalChunks(MaxFileSize) - 1) : ChunkSaved(i)
    \/ \E i \in 0..(TotalChunks(MaxFileSize) - 1) : ChunkRaises(i)
    \/ GatherRaises
    \/ SendFile

SpecUpload == UploadInit /\ [][UploadNext]_vars

(***************************************************************************)
(* The timeline specification: get_representations applied to every        *)
(* SegmentTimeline within the bounds.                                      *)
(***************************************************************************)

TimelineInit ==
    /\ parse \in [pc : {"input"}, timeline : Timelines, hasMedia : BOOLEAN,
                  rid : {"2880000", ""}, segments : {<<>>}]
    /\ dl = DlIdle
    /\ PipeIdle

\* get_representations on the manifest read.
GetRepresentations ==
    /\ parse.pc = "input"
    /\ parse' = [parse EXCEPT
                    !.pc = "parsed",
                    !.segments = SegmentsOf(parse.timeline, parse.hasMedia,
                                            parse.rid)]
    /\ UNCHANGED <<dl, pipeVars>>

TimelineNext == GetRepresentations

SpecTimeline == TimelineInit /\ [][TimelineNext]_vars

(***************************************************************************)
(* The download specification: download_file called again and again on     *)
(* one destination path, the file staying on disk between the calls.       *)
(***************************************************************************)
DlUrl == MediaUrl("2880000", 0)

DlOut == <<"video", DlUrl>>

DownloadInit ==
    /\ parse = ParseIdle
    /\ dl = DlIdle
    /\ PipeIdle

\* One call download_file(url, output) with the default retries.
DownloadFile ==
    /\ \E net \in Nets :
          LET r == download_file(dl.fs, DlUrl, DlOut, Retries, net, 0)
          IN dl' = [pc |-> "returned", before |-> dl.fs, fs |-> r.fs,
                    net |-> net, ret |-> r.ret, requests |-> r.requests,
                    log |-> r.log]
    /\ UNCHANGED <<parse, pipeVars>>

DownloadNext == DownloadFile

SpecDownload == DownloadInit /\ [][DownloadNext]_vars

(***************************************************************************)
(* C4: a timeline of runs (d, r, t) yields r+1 URLs per run, in order.     *)
(***************************************************************************)

\* The number of segments of the first i runs.
RECURSIVE CountBefore(_, _)
CountBefore(tl, i) ==
    IF i <= 1 THEN 0 ELSE CountBefore(tl, i - 1) + tl[i - 1].r + 1

\* The start time of run i: its explicit t, else the end of the run before.
RECURSIVE RunStart(_, _)
RunStart(tl, i) ==
    IF HasT(tl[i].t) THEN tl[i].t
    ELSE IF i = 1 THEN 0
    ELSE RunStart(tl, i - 1) + (tl[i - 1].r + 1) * tl[i - 1].d

\* The run the k-th segment belongs to.
RunOf(tl, k) ==
    CHOOSE i \in 1..Len(tl) :
        CountBefore(tl, i) < k /\ k <= CountBefore(tl, i + 1)

ExpectedTime(tl, k) ==
    LET i == RunOf(tl, k)
    IN RunStart(tl, i) + (k - CountBefore(tl, i) - 1) * tl[i].d

\* C4: with a media template and a representation id, get_representations
\* emits r+1 URLs per run, in timeline order, and the k-th URL carries the
\* start time of the k-th segment: the latest explicit t (0 when the first
\* run has none) plus the durations of the segments emitted since.
C4_TimelineUrls ==
    (parse.pc = "parsed" /\ parse.hasMedia /\ parse.rid # "") =>
        /\ Len(parse.segments) = CountBefore(parse.timeline,
                                             Len(parse.timeline) + 1)
        /\ \A k \in 1..Len(parse.segments) :
              parse.segments[k] =
                  MediaUrl(parse.rid, ExpectedTime(parse.timeline, k))

\* A parsed timeline of two runs, the first repeated, the second resetting
\* the clock to 0 after it has advanced.
C4_Witness ==
    /\ parse.pc = "parsed" /\ parse.hasMedia /\ parse.rid # ""
    /\ Len(parse.timeline) = 2
    /\ parse.timeline[1].r = 1 /\ parse.timeline[1].d = 2
    /\ parse.timeline[1].t = NoT
    /\ parse.timeline[2].t = 0 /\ parse.timeline[2].d = 1
    /\ Len(parse.segments) >= 3
    /\ parse.segments[2] = MediaUrl(parse.rid, 2)
    /\ parse.segments[3] = MediaUrl(parse.rid, 0)

(***************************************************************************)
(* C5, C6: the retries of download_file.                                   *)
(***************************************************************************)

\* The number of times `what` occurs in a log.
RECURSIVE CountIn(_, _)
CountIn(log, what) ==
    IF log = <<>> THEN 0
    ELSE (IF Head(log) = what THEN 1 ELSE 0) + CountIn(Tail(log), what)

\* The call started without a destination file and has returned.
DlFresh == dl.pc = "returned" /\ ~Exists(dl.before, DlOut)

\* C5: a download that made k failed attempts (1 <= k <= retries), each a
\* transient transport error, and then an attempt that succeeded, returns
\* the destination path, and the file holds the bytes of the successful
\* attempt only.
C5_RetryThenSuccess ==
    (/\ DlFresh
     /\ dl.net.fails \in 1..Retries
     /\ dl.net.then = "OK"
     /\ dl.requests = dl.net.fails + 1) =>
        /\ dl.ret = DlOut
        /\ Exists(dl.fs, DlOut)
        /\ dl.fs[DlOut] = Body(DlUrl)

\* Two interrupted attempts, then a third that succeeds.
C5_Witness ==
    /\ DlFresh
    /\ dl.net = [fails |-> 2, how |-> "Chunked", then |-> "OK"]
    /\ dl.requests = 3
    /\ dl.log = <<"request", "Chunked", "remove",
                  "request", "Chunked", "remove", "request", "OK">>
    /\ dl.ret = DlOut

\* C6: every transient transport failure, a connection reset or a body cut
\* short, is retried while retry budget remains, the partial file being
\* removed first: a network whose first k attempts fail (k <= retries) sees
\* at least k+1 requests, and k removals of the destination file.
C6_EveryTransientRetried ==
    DlFresh =>
        \A k \in 1..Retries :
            dl.net.fails >= k =>
                /\ dl.requests >= k + 1
                /\ CountIn(dl.log, "remove") >= k

(***************************************************************************)
(* C11, C12: a refused request, and the number of attempts.                *)
(***************************************************************************)
Last(q) == q[Len(q)]

\* C11: a request answered with a status code other than 200 is the last
\* request of its download (it is not retried), the download returns None,
\* download_segment's result for the position is a failure, and no file
\* is at the destination.
C11_StatusIsHardFailure ==
    (DlFresh /\ CountIn(dl.log, "Status") > 0) =>
        /\ CountIn(dl.log, "Status") = 1
        /\ Last(dl.log) = "Status"
        /\ dl.ret = None
        /\ SegmentResult(0, DlOut, dl.ret # None) = <<0, None>>
        /\ ~Exists(dl.fs, DlOut)

\* The first request is answered with a server error.
C11_Witness ==
    /\ DlFresh
    /\ dl.net.fails = 0 /\ dl.net.then = "Status"
    /\ dl.requests = 1
    /\ dl.log = <<"request", "Status">>

\* C12: a download whose every attempt ends in a transient transport error
\* makes at most 5 attempts and returns None.
C12_AtMostFiveAttempts ==
    (/\ DlFresh
     /\ \A i \in 0..(dl.requests - 1) : Attempt(dl.net, i) \in Transient) =>
        /\ dl.requests <= 5
        /\ dl.ret = None

(***************************************************************************)
(* C13, C14: the loop over the children of an item.                        *)
(***************************************************************************)

\* C13: when the loop over the children is over, the pipeline of every
\* child has been run, in the order of the list.
C13_EveryChildRuns ==
    batch.pc \in {"send", "done"} =>
        batch.ran = [n \in 1..Len(batch.children) |-> n - 1]

\* C14: no error of a child's pipeline leaves the download of the batch.
C14_ChildErrorConfined == batch.pc # "raised"

(***************************************************************************)
(* C15, C16, C17: the mux, the decryptor and the publisher.                *)
(***************************************************************************)

\* C15: ffmpeg has run only with both the video and the audio file on
\* disk, and after a run of it that exited non-zero download returns no
\* path and nothing is published.
C15_MuxGuardedAndFatal ==
    /\ muxes # <<>> => Exists(files, VideoFile) /\ Exists(files, AudioFile)
    /\ \A m \in 1..Len(muxes) :
          ~muxes[m].ok =>
              /\ pc \in {"mux", "done"}
              /\ ret = None
              /\ published = <<>>

\* ffmpeg ran and failed, and download is over.
C15_Witness ==
    /\ pc = "done"
    /\ Len(muxes) = 1
    /\ ~muxes[1].ok
    /\ ret = None

\* C16: in a run in which mp4decrypt exited non-zero for a selected
\* representation, ffmpeg is not run and nothing is published.
C16_DecryptFailureStopsItem ==
    (\E n \in 1..Len(assembled) : ~assembled[n].dec) =>
        /\ muxes = <<>>
        /\ published = <<>>

\* C17: once ffmpeg has succeeded, no error leaves download, and download
\* returns the muxed output whatever the publish step did.
C17_PublishNonFatal ==
    (\E m \in 1..Len(muxes) : muxes[m].ok) =>
        /\ pc # "crashed"
        /\ pc = "done" => ret = MuxOutput

(***************************************************************************)
(* C18: which manifest is used.                                            *)
(***************************************************************************)

\* C18: once download is past the choice of the manifest, the
\* representations it works on are those of the first manifest, in catalog
\* order, whose name holds the resolution, and of no later one.
C18_FirstMatchOnly ==
    (pc \notin {"start", "none"} /\ Matching # {}) =>
        \E n \in Matching :
            /\ \A m \in Matching : n <= m
            /\ reprs = get_representations(mpds[n].reprs)
            /\ ri <= Len(reprs) + 1

\* Two manifests match, with different representations, and download is
\* over.
C18_Witness ==
    /\ pc = "done"
    /\ \E n, m \in Matching :
          /\ n < m
          /\ get_representations(mpds[n].reprs)
                 # get_representations(mpds[m].reprs)
          /\ reprs = get_representations(mpds[n].reprs)

(***************************************************************************)
(* C21, C22, C23: the worker pool of a fetch.                              *)
(***************************************************************************)

\* C21: a step that assembles a stream (combine reads the segment files)
\* is taken only when no task of the fetch is waiting or running: every
\* one has returned and been collected.
C21_CombineAfterJoin ==
    [][Len(assembled') > Len(assembled) =>
          \A n \in 1..Len(tasks) : tasks[n].st = "collected"]_vars

\* A stream has been assembled from a fetch of two tasks.
C21_Witness ==
    /\ pc = "repr"
    /\ Len(assembled) >= 1
    /\ Len(tasks) = 2
    /\ Len(assembled[Len(assembled)].results) = 2

\* The tasks whose download is in flight write these files.
InFlightPaths(n) == OutputPath(cur.path, cur.segments[n])

C23_AtMostThreadsInFlight ==
    pc = "fetch" => Cardinality(Running) <= Threads

\* Every worker busy while a task still waits in the queue.
C23_Witness ==
    /\ pc = "fetch"
    /\ Cardinality(Running) = Threads
    /\ \E n \in 1..Len(tasks) : tasks[n].st = "pending"

(***************************************************************************)
(* C24: the cache of the catalog entry.                                    *)
(***************************************************************************)

\* C24: at most one catalog request is made in a run, and every access to
\* Darya.item returns what the first access returned.
C24_ItemFetchedOnce ==
    /\ cat.requests <= 1
    /\ \A i, j \in 1..Len(cat.got) : cat.got[i] = cat.got[j]

(***************************************************************************)
(* C25, C26: optional keys of a representation; files left on disk.        *)
(***************************************************************************)

\* C25: download does not abort at a representation for lacking a
\* content-protection blob or an initialization URL.
C25_OptionalKeys ==
    ~(/\ pc = "crashed"
      /\ ri \in 1..Len(reprs)
      /\ ~(reprs[ri].hasInit /\ reprs[ri].hasPssh))

\* C26: when download_file has returned, a file at the destination holds
\* the complete body of the URL.
C26_OnlyCompleteFiles ==
    (dl.pc = "returned" /\ Exists(dl.fs, DlOut)) =>
        dl.fs[DlOut] = Body(DlUrl)

(***************************************************************************)
(* C28: the chunked upload.                                                *)
(***************************************************************************)

\* The requests issued for part i, as positions of up.parts.
PartRequests(i) == {n \in 1..Len(up.parts) : up.parts[n][1] = i}

\* C28: never more parts in flight than the semaphore admits; no part is
\* uploaded twice and every uploaded part i carries the bytes of the file
\* at offset i * chunk_size; send_file is issued only after every part was
\* uploaded, once each, and its upload has finished.
C28_ChunkedUpload ==
    /\ Cardinality({i \in DOMAIN up.st : up.st[i] = "sending"})
          <= SemaphoreSlots
    /\ \A n \in 1..Len(up.parts) :
          LET i == up.parts[n][1]
              first == i * ChunkSize
              last == IF first + ChunkSize < up.size
                      THEN first + ChunkSize ELSE up.size
          IN /\ Cardinality(PartRequests(i)) = 1
             /\ up.parts[n][2] = [k \in 1..(last - first) |-> first + k]
    /\ up.sent =>
          \A i \in 0..(TotalChunks(up.size) - 1) :
             /\ Cardinality(PartRequests(i)) = 1
             /\ up.st[i] = "done"

\* A file of more parts than the semaphore admits was sent, its last part
\* shorter than chunk_size.
C28_Witness ==
    /\ up.sent
    /\ Len(up.parts) > SemaphoreSlots
    /\ up.size % ChunkSize # 0

(***************************************************************************)
(* C27: how often an output is uploaded.                                   *)
(***************************************************************************)

\* C27: no output file has more than one upload started for it.
C27_PublishedOnce ==
    \A i, j \in 1..Len(published) : published[i] = published[j] => i = j

\* The child uploaded its output, and the parent has called send_video
\* for the same file.
C27_Witness ==
    /\ batch.pc = "done"
    /\ batch.sent = <<MuxOutput>>
    /\ published = <<MuxOutput>>

(***************************************************************************)
(* C1, C2, C3: what is assembled and what is muxed.                        *)
(***************************************************************************)
Range(q) == {q[n] : n \in 1..Len(q)}

RECURSIVE Bodies(_)
Bodies(urls) ==
    IF urls = <<>> THEN <<>> ELSE Body(Head(urls)) \o Bodies(Tail(urls))

Succeeded(a) == \A n \in 1..Len(a.results) : a.results[n][2] # None

\* Every position was requested during this fetch and its request ended
\* with a complete body, and so did the initialization segment's when it
\* has a file.
Fetched(a) ==
    /\ \A n \in 1..Len(a.results) :
          a.results[n][2] # None /\ a.requests[n] > 0
    /\ a.init # None =>
          Exists(files, a.init) /\ files[a.init] = Body(InitUrl(a.rid))

\* C1: for a representation of N segments whose N downloads succeeded, in
\* whatever order they completed, the assembled stream is the
\* initialization segment (when fetched) followed by segment 0, segment 1,
\* ..., segment N-1.
C1_AssembledInOrder ==
    \A n \in 1..Len(assembled) :
        LET a == assembled[n]
        IN Fetched(a) =>
              a.stream = (IF a.init # None THEN Body(InitUrl(a.rid))
                          ELSE <<>>) \o Bodies(a.segments)

\* C2: when a position has no successful result after all downloads have
\* completed, assembly fails and leaves no assembled file.
C2_IncompleteFailsAssembly ==
    \A n \in 1..Len(assembled) :
        LET a == assembled[n]
        IN ~Succeeded(a) => ~Exists(files, a.ff) /\ ~Exists(files, a.out)

\* C3: ffmpeg never reads a stream assembled from fewer than all the
\* segment positions of its representation.
C3_MuxOnlyComplete ==
    \A m \in 1..Len(muxes) : \A n \in 1..Len(assembled) :
        LET a == assembled[n]
        IN Decrypted(a.stream) \in {muxes[m].video, muxes[m].audio} =>
              \A k \in 1..Len(a.segments) :
                  Body(a.segments[k])[1] \in Range(a.stream)

(***************************************************************************)
(* C19, C20: whose results are assembled, and the order of the stages.     *)
(***************************************************************************)

\* The files of the successful results of a fetch, in position order.
RECURSIVE OwnFiles(_)
OwnFiles(results) ==
    IF results = <<>> THEN <<>>
    ELSE (IF Head(results)[2] # None THEN files[Head(results)[2]] ELSE <<>>)
            \o OwnFiles(Tail(results))

\* C19: the stream assembled for a representation is its initialization
\* file (when there is one) followed by the files of the successful
\* results of its own fetch, and nothing else.
C19_OwnResultsOnly ==
    \A n \in 1..Len(assembled) :
        LET a == assembled[n]
        IN a.stream = (IF a.init # None THEN files[a.init] ELSE <<>>)
                          \o OwnFiles(a.results)

\* C20: a stage is entered only after the stage before it succeeded: a
\* stream is assembled only from a fetch that succeeded at every position,
\* ffmpeg runs only in a run whose decryptions all succeeded, and an upload
\* starts only after ffmpeg succeeded in the same run.
C20_StagesInOrder ==
    /\ \A n \in 1..Len(assembled) : Succeeded(assembled[n])
    /\ muxes # <<>> => \A n \in 1..Len(assembled) : assembled[n].dec
    /\ published # <<>> => \E m \in 1..Len(muxes) : muxes[m].ok

(***************************************************************************)
(* C7: a fetch that finds every segment file.                              *)
(***************************************************************************)

\* C7: a run that finds every destination file of a representation's
\* segments makes no request for them and has, position by position, the
\* results the run before had.
C7_ResumeIdempotent ==
    \A n \in 1..Len(assembled) :
        LET a == assembled[n]
        IN (reruns >= 1 /\ a.had) =>
              /\ \A k \in 1..Len(a.requests) : a.requests[k] = 0
              /\ \E p \in Range(prev) :
                    p.path = a.path /\ p.results = a.results

(***************************************************************************)
(* C8, C9: which representations are selected.                             *)
(***************************************************************************)
WantedVideo == resolution2representation(resolution)

WantedAudio == audio_bitrate2representation(audio)

\* C8: when no representation of the chosen manifest has the id the
\* resolution maps to, the run does not succeed, and neither muxes nor
\* publishes.
C8_NoMatchNoOutput ==
    (/\ pc # "start"
     /\ Matching # {}
     /\ \A n \in 1..Len(reprs) : reprs[n].rid # WantedVideo) =>
        /\ ret = None
        /\ muxes = <<>>
        /\ published = <<>>

\* C9: the representations fetched and assembled are the video
\* representation with the resolution's id and the audio representation
\* with the bitrate's id, and no other.
C9_ExactlyTheTwo ==
    \A n \in 1..Len(assembled) :
        LET a == assembled[n]
        IN \/ a.path = VideoDir /\ a.rid = WantedVideo
           \/ a.path = AudioDir /\ a.rid = WantedAudio

(***************************************************************************)
(* C10: one result per task, at the task's position.                       *)
(***************************************************************************)
ResultOf(path, segments, n, res) ==
    /\ res[1] = n - 1
    /\ res[2] \in {None, OutputPath(path, segments[n])}

\* C10: a task has no result until its download returns and one from then
\* on; the result carries the task's position, and a successful one names
\* the file of the URL at that position, which holds bytes of that URL.
C10_ResultPerTask ==
    /\ pc = "fetch" =>
          \A n \in 1..Len(tasks) :
              IF tasks[n].st \in {"pending", "running"}
              THEN tasks[n].res = None
              ELSE /\ ResultOf(cur.path, cur.segments, n, tasks[n].res)
                   /\ tasks[n].res[2] # None =>
                         /\ Exists(files, tasks[n].res[2])
                         /\ files[tasks[n].res[2]] \in
                               {Body(cur.segments[n]),
                                Partial(cur.segments[n])}
    /\ \A m \in 1..Len(assembled) :
          /\ Len(assembled[m].results) = Len(assembled[m].segments)
          /\ \A n \in 1..Len(assembled[m].results) :
                ResultOf(assembled[m].path, assembled[m].segments, n,
                         assembled[m].results[n])

\* Two tasks whose results were collected in the reverse of the order
\* they were submitted in, both successful.
C10_Witness ==
    /\ pc = "fetch"
    /\ Len(tasks) = 2
    /\ tasks[1].st = "collected" /\ tasks[2].st = "collected"
    /\ Len(downloaded) = 2
    /\ downloaded[1][1] = 1 /\ downloaded[2][1] = 0

=============================================================================
